---------------------------- MODULE Spec2Model ----------------------------
(***************************************************************************)
(* A model of media-display (src/mediadisplay.py): the MediaPlayer methods *)
(* show_image, show_video and show_announcement, and the slideshow loop of *)
(* main().                                                                 *)
(*                                                                         *)
(* Three specifications share the variables:                               *)
(*   SpecImage   show_image applied to every image size / screen size      *)
(*   SpecLayout  show_announcement applied to every announcement           *)
(*   Spec        main(): the cycle / step loop with its environment        *)
(***************************************************************************)
EXTENDS Integers, Sequences, FiniteSets, TLC

(***************************************************************************)
(* Bounds of the model.                                                    *)
(***************************************************************************)
\* largest image / screen dimension, in pixels, SpecImage draws
MaxDim == 15
\* largest number of lines of an announcement SpecLayout draws
MaxLines == 3
\* largest line_spacing (pixels) SpecLayout draws
MaxSpacing == 2
\* the last day (ordinal in Calendar) the clock of Spec reaches
MaxDay == 5
\* probabilities and random draws are multiples of 1/Scale
Scale == 2

VARIABLES
    \* ---- MediaPlayer -------------------------------------------------
    screen_width,    \* self.screen_width
    screen_height,   \* self.screen_height
    screen,          \* what the last show_* call left on the display
    \* ---- arguments of the call under study (SpecImage, SpecLayout) ----
    img,             \* the loaded image: [width, height]
    announcement,    \* show_announcement's announcement argument
    line_spacing,    \* show_announcement's line_spacing argument
    font_leading,    \* the font's line height above its point size
    \* ---- main() -------------------------------------------------------
    pc,              \* position of main() in its loop
    current_date,    \* the date captured at the start of the cycle
    announcements,   \* the cycle's announcements
    photos,          \* the cycle's sorted photo list
    videos,          \* the cycle's video list
    current_photo,   \* index of the next photo (0-based, as in the code)
    step,            \* what the current step has drawn and shown so far
    cycle_shown,     \* the photos displayed so far in this cycle, in order
    uncaught,        \* where an uncaught exception ended main(), or "none"
    ann_tree,        \* ET.parse(ANNOUNCEMENT_FILE) of this cycle
    disk,            \* the directory listings the globs of this cycle saw
    \* ---- configuration (read once, before the loop) -------------------
    PHOTO_FILES,
    ANNOUNCEMENT_PROBABILITY,
    VIDEO_PROBABILITY,
    \* ---- environment --------------------------------------------------
    today            \* the system clock's date (ordinal in Calendar)

playerVars == <<screen_width, screen_height, screen>>
argVars    == <<img, announcement, line_spacing, font_leading>>
mainVars   == <<pc, current_date, announcements, photos, videos,
                current_photo, step, cycle_shown, uncaught, ann_tree,
                disk>>
configVars == <<PHOTO_FILES, ANNOUNCEMENT_PROBABILITY, VIDEO_PROBABILITY>>
envVars    == <<today>>
vars == <<playerVars, argVars, mainVars, configVars, envVars>>

(***************************************************************************)
(* Python arithmetic used by show_image.                                   *)
(*                                                                         *)
(* int((float(a) / b) * c) for integers a, b > 0 and c >= 0.  The division *)
(* and the multiplication are IEEE-754 double operations, each rounded to  *)
(* nearest-even on a 53-bit significand; int() truncates.  The significand *)
(* does not fit TLC's integers, so the two roundings are followed through  *)
(* their remainders:                                                       *)
(*   q = fl(a/b) = a/b + d / (b * 2^k),  k = 52 - floor(log2(a/b)),        *)
(*       where r = (a * 2^k) mod b and d = -r if 2r < b, else b - r;       *)
(*   if b does not divide a*c the exact quotient is at least 1/b from an   *)
(*       integer and neither rounding crosses it;                          *)
(*   if a*c/b = n is an integer, q*c = n + d*c/(b*2^k), which fl() takes   *)
(*       to n unless d < 0 and |d|*c/(b*2^k) exceeds half the gap between  *)
(*       n and the double below it (2^(e-52), or 2^(e-53) when n = 2^e).   *)
(***************************************************************************)
RECURSIVE Pow2(_)
Pow2(n) == IF n = 0 THEN 1 ELSE 2 * Pow2(n - 1)

RECURSIVE Pow2Mod(_, _)
Pow2Mod(k, b) == IF k = 0 THEN 1 % b ELSE (2 * Pow2Mod(k - 1, b)) % b

\* floor(log2(n)) for n >= 1
RECURSIVE Log2Floor(_)
Log2Floor(n) == IF n < 2 THEN 0 ELSE 1 + Log2Floor(n \div 2)

\* floor(log2(a/b)) for a, b >= 1
RECURSIVE Log2Ratio(_, _)
Log2Ratio(a, b) ==
    IF a >= b THEN Log2Floor(a \div b)
    ELSE Log2Ratio(2 * a, b) - 1

\* d: the rounding error of float(a) / b, in units of 1 / (b * 2^k)
FloatDivError(a, b) ==
    LET k == 52 - Log2Ratio(a, b)
        r == (a * Pow2Mod(k, b)) % b
    IN  IF 2 * r < b THEN 0 - r ELSE b - r

\* int((float(a) / b) * c) rounded to the nearest integer instead of
\* truncated: the fault "round() for int()"
IntFloatMulDiv_Rounding(a, b, c) == (2 * a * c + b) \div (2 * b)

\* int((float(a) / b) * c)
IntFloatMulDiv(a, b, c) ==
    LET n   == (a * c) \div b
        d   == FloatDivError(a, b)
        lg  == Log2Ratio(a, b)
        e   == Log2Floor(n)
        lhs == (0 - d) * c * (IF n = Pow2(e) THEN 4 ELSE 2)
        rhs == b * Pow2(e)
    IN  IF c = 0 THEN 0
        ELSE IF (a * c) % b # 0 THEN n
        ELSE IF d >= 0 THEN n
        ELSE IF lg >= 0
             THEN (IF lhs * Pow2(lg) > rhs THEN n - 1 ELSE n)
             ELSE (IF lhs > rhs * Pow2(0 - lg) THEN n - 1 ELSE n)

(***************************************************************************)
(* MediaPlayer.show_image.  The result is what the call leaves behind: the *)
(* exception it raises, or the size the image is scaled to and where it is *)
(* blitted.  display_x and display_y are (screen - scaled) / 2 in Python 3 *)
(* true division; the model keeps them in half pixels (field x2 = 2 * x).  *)
(***************************************************************************)
Blit(kind, w, h, x2, y2) ==
    [outcome |-> kind, scaled_width |-> w, scaled_height |-> h,
     display_x2 |-> x2, display_y2 |-> y2]

Raised(exception) == [outcome |-> exception]

\* show_image without the "taller than the screen" branch: the fault
\* of always filling the width
ShowImage_FillWidthOnly(sw, sh, iw, ih) ==
    IF ih # sh \/ iw # sw
    THEN IF iw = 0 THEN Raised("ZeroDivisionError")
         ELSE Blit("scaled", sw, IntFloatMulDiv(sw, iw, ih),
                   0, sh - IntFloatMulDiv(sw, iw, ih))
    ELSE Blit("unscaled", iw, ih, 0, 0)

ShowImage(sw, sh, iw, ih) ==
    IF ih # sh \/ iw # sw
    THEN \* float(self.screen_width) / img_width
         IF iw = 0 THEN Raised("ZeroDivisionError")
         ELSE LET scaled_height == IntFloatMulDiv(sw, iw, ih)
              IN  IF scaled_height > sh
                  THEN \* float(self.screen_height) / img_height: ih > 0
                       \* here, since scaled_height > 0
                       LET scaled_width == IntFloatMulDiv(sh, ih, iw)
                       IN  Blit("scaled", scaled_width, sh,
                                sw - scaled_width, 0)
                  ELSE Blit("scaled", sw, scaled_height,
                            0, sh - scaled_height)
    ELSE Blit("unscaled", iw, ih, 0, 0)

(***************************************************************************)
(* MediaPlayer.show_announcement.  A line is [text, size, color, center];  *)
(* text is a sequence of characters.                                       *)
(***************************************************************************)
\* str.strip(): drop leading and trailing whitespace
RECURSIVE LStrip(_)
LStrip(text) ==
    IF text # <<>> /\ Head(text) = " " THEN LStrip(Tail(text)) ELSE text

RECURSIVE RStrip(_)
RStrip(text) ==
    IF text # <<>> /\ text[Len(text)] = " "
    THEN RStrip(SubSeq(text, 1, Len(text) - 1))
    ELSE text

Strip(text) == RStrip(LStrip(text))

\* pygame.font.Font(text_font, size).size(text): the rendered width and
\* height.  The height is the font's line height, the same for every text
\* (the empty one included); each glyph advances by half the point size.
FontSize(text, size, leading) ==
    [line_width |-> Len(text) * (size \div 2), line_height |-> size + leading]

\* First loop: "if text.strip:" tests the bound method object, not the
\* result of calling it, and a method object is always true.
StripMethodIsTrue(text) == TRUE

RECURSIVE TotalHeight(_, _, _)
TotalHeight(ann, spacing, leading) ==
    IF ann = <<>> THEN 0
    ELSE LET line == Head(ann)
             rest == TotalHeight(Tail(ann), spacing, leading)
         IN  IF StripMethodIsTrue(line.text)
             THEN FontSize(line.text, line.size, leading).line_height
                  + spacing + rest
             ELSE line.size + rest

\* Second loop: the blits, in order, from current_y2 (half pixels) on
RECURSIVE RenderLines(_, _, _, _, _)
RenderLines(ann, y2, sw, spacing, leading) ==
    IF ann = <<>> THEN <<>>
    ELSE LET line == Head(ann)
             m    == FontSize(line.text, line.size, leading)
         IN  IF Strip(line.text) # <<>>
             THEN <<[text |-> line.text,
                     disp_x2 |-> IF line.center THEN sw - m.line_width ELSE 0,
                     disp_y2 |-> y2]>>
                  \o RenderLines(Tail(ann),
                                 y2 + 2 * (m.line_height + spacing),
                                 sw, spacing, leading)
             ELSE RenderLines(Tail(ann), y2 + 2 * line.size,
                              sw, spacing, leading)

ShowAnnouncement(ann, sw, sh, spacing, leading) ==
    LET total_height == TotalHeight(ann, spacing, leading)
        \* current_y = (self.screen_height - total_height) / 2, not below 0
        current_y2   == IF sh - total_height < 0 THEN 0 ELSE sh - total_height
    IN  [outcome |-> "announcement",
         total_height |-> total_height,
         current_y2 |-> current_y2,
         blits |-> RenderLines(ann, current_y2, sw, spacing, leading)]

(***************************************************************************)
(* SpecImage: show_image on every image size and screen size.              *)
(* SpecLayout: show_announcement on every announcement main() can build.   *)
(***************************************************************************)
NoStep == [photo |-> <<>>, draws |-> <<>>, order |-> <<>>,
           announcement |-> 0, video |-> <<>>, player |-> "none"]

NoDisk == [photo_path |-> <<>>, video_path |-> <<>>]

MainIdle ==
    /\ current_date = 0 /\ announcements = <<>> /\ photos = <<>>
    /\ videos = <<>> /\ current_photo = 0 /\ step = NoStep
    /\ cycle_shown = <<>> /\ uncaught = "none" /\ ann_tree = <<>>
    /\ disk = NoDisk /\ PHOTO_FILES = <<>>
    /\ ANNOUNCEMENT_PROBABILITY = 0 /\ VIDEO_PROBABILITY = 0 /\ today = 0

Blank == [outcome |-> "blank"]

InitImage ==
    /\ screen_width \in 1..MaxDim
    /\ screen_height \in 1..MaxDim
    /\ img \in [width : 0..MaxDim, height : 0..MaxDim]
    /\ screen = Blank
    /\ announcement = <<>> /\ line_spacing = 0 /\ font_leading = 0
    /\ pc = "call"
    /\ MainIdle

CallShowImage ==
    /\ pc = "call"
    /\ screen' = ShowImage(screen_width, screen_height, img.width, img.height)
    /\ pc' = "returned"
    /\ UNCHANGED <<screen_width, screen_height, argVars, current_date,
                   announcements, photos, videos, current_photo, step,
                   cycle_shown, uncaught, ann_tree, disk, configVars, envVars>>

NextImage == CallShowImage

SpecImage == InitImage /\ [][NextImage]_vars

\* The lines main() builds (lines 327-341): a "space" element becomes
\* ["", size, (0, 0, 0), False]; an element with text keeps its text.
SpaceLine(size) ==
    [text |-> <<>>, size |-> size, color |-> <<0, 0, 0>>, center |-> FALSE]

TextLine(text, size, color, center) ==
    [text |-> text, size |-> size, color |-> color, center |-> center]

LineSizes == {10, 20, 30}

LayoutLines ==
    {SpaceLine(s) : s \in LineSizes}
    \cup {TextLine(t, s, <<255, 0, 0>>, c) :
            t \in {<<" ">>, <<"H", "i">>}, s \in LineSizes, c \in BOOLEAN}

SeqsUpTo(S, n) == UNION {[1..k -> S] : k \in 0..n}

InitLayout ==
    /\ \E size \in {<<64, 48>>, <<200, 150>>} :
           screen_width = size[1] /\ screen_height = size[2]
    /\ announcement \in SeqsUpTo(LayoutLines, MaxLines)
    /\ line_spacing \in 0..MaxSpacing
    /\ font_leading \in {0, 2}
    /\ img = [width |-> 0, height |-> 0]
    /\ screen = Blank
    /\ pc = "call"
    /\ MainIdle

CallShowAnnouncement ==
    /\ pc = "call"
    /\ screen' = ShowAnnouncement(announcement, screen_width, screen_height,
                                  line_spacing, font_leading)
    /\ pc' = "returned"
    /\ UNCHANGED <<screen_width, screen_height, argVars, current_date,
                   announcements, photos, videos, current_photo, step,
                   cycle_shown, uncaught, ann_tree, disk, configVars, envVars>>

NextLayout == CallShowAnnouncement

SpecLayout == InitLayout /\ [][NextLayout]_vars

(***************************************************************************)
(* Properties of show_image                                                *)
(***************************************************************************)
Scaled == pc = "returned" /\ screen.outcome = "scaled"

\* floor(a * c / b) and whether the quotient is exact
ExactFloor(a, b, c) == (a * c) \div b
Divides(a, b, c) == (a * c) % b = 0
\* round-half-up of a * c / b; Python's round() differs from it only on
\* exact halves, where it rounds to even
RoundNearest(a, b, c) ==
    LET n == (a * c) \div b
        r == (a * c) % b
    IN  IF 2 * r < b THEN n
        ELSE IF 2 * r > b THEN n + 1
        ELSE IF n % 2 = 0 THEN n ELSE n + 1

\* C2 as stated: when the source size differs from the surface size,
\* candidateH = round(dstW / srcW * srcH); the final size is
\* (dstW, candidateH) if candidateH <= dstH, else
\* (round(dstH / srcH * srcW), dstH), for every positive size.
C2_RoundToNearest ==
    (Scaled /\ img.width > 0 /\ img.height > 0) =>
        LET candidateH == RoundNearest(screen_width, img.width, img.height)
        IN  IF candidateH <= screen_height
            THEN /\ screen.scaled_width = screen_width
                 /\ screen.scaled_height = candidateH
            ELSE /\ screen.scaled_width =
                        RoundNearest(screen_height, img.height, img.width)
                 /\ screen.scaled_height = screen_height

\* a value int() can produce for a * c / b: the floor of the quotient, or
\* one below it when the quotient is an integer the double product misses
IsTruncated(v, a, b, c) ==
    \/ v = ExactFloor(a, b, c)
    \/ Divides(a, b, c) /\ v = ExactFloor(a, b, c) - 1

\* C2 (amended): when the source size differs from the surface size, the
\* scaled size is computed by truncation, not by rounding to nearest:
\* candidateH = int(dstW / srcW * srcH), which is floor(dstW * srcH / srcW)
\* or, only when that quotient is an integer, possibly one less (the
\* double-precision product may fall just below it); the final size is
\* (dstW, candidateH) if candidateH <= dstH, else
\* (int(dstH / srcH * srcW), dstH) with the same truncation.
C2_Truncates ==
    (Scaled /\ img.width > 0 /\ img.height > 0) =>
        \E candidateH \in 0..(ExactFloor(screen_width, img.width, img.height)) :
            /\ IsTruncated(candidateH, screen_width, img.width, img.height)
            /\ IF candidateH <= screen_height
               THEN /\ screen.scaled_width = screen_width
                    /\ screen.scaled_height = candidateH
               ELSE /\ IsTruncated(screen.scaled_width,
                                   screen_height, img.height, img.width)
                    /\ screen.scaled_height = screen_height

\* C2 witness: a scaled image where truncation and rounding disagree
\* (screen 4 wide, image 3 x 2: 4/3*2 = 2.67 is scaled to height 2)
C2_Witness ==
    /\ Scaled /\ img.width > 0 /\ img.height > 0
    /\ screen.scaled_width = screen_width
    /\ screen.scaled_height =
           ExactFloor(screen_width, img.width, img.height)
    /\ screen.scaled_height + 1 =
           RoundNearest(screen_width, img.width, img.height)
    /\ screen.scaled_height + 1 <= screen_height

\* C3: for every positive source and surface size the scaled size fits the
\* surface on both axes, and both centering offsets are non-negative.
C3_Fits ==
    (pc = "returned" /\ img.width > 0 /\ img.height > 0) =>
        /\ screen.outcome \in {"scaled", "unscaled"}
        /\ screen.scaled_width <= screen_width
        /\ screen.scaled_height <= screen_height
        /\ screen.display_x2 >= 0
        /\ screen.display_y2 >= 0

\* C3 witness: an image taller than the screen's aspect, limited to the
\* screen height and centered horizontally with slack
C3_Witness ==
    /\ Scaled /\ img.width > 0 /\ img.height > 0
    /\ screen.scaled_height = screen_height
    /\ screen.scaled_width < screen_width
    /\ screen.display_x2 > 0
    /\ ExactFloor(screen_width, img.width, img.height) > screen_height

\* C10 as stated: an image of width 0 or height 0 makes show_image fail
\* with InvalidMediaError; no division by zero is performed and no
\* placement is produced.
C10_ZeroDimensionRejected ==
    (pc = "returned" /\ (img.width = 0 \/ img.height = 0)) =>
        screen.outcome = "InvalidMediaError"

(***************************************************************************)
(* Properties of show_announcement                                         *)
(***************************************************************************)
\* the block height of section 4.2: lineHeight + spacing for a text line,
\* size alone for a spacer (a line whose text is empty after trimming)
RECURSIVE BlockHeight(_, _, _)
BlockHeight(ann, spacing, leading) ==
    IF ann = <<>> THEN 0
    ELSE (IF Strip(Head(ann).text) = <<>>
          THEN Head(ann).size
          ELSE FontSize(Head(ann).text, Head(ann).size, leading).line_height
               + spacing)
         + BlockHeight(Tail(ann), spacing, leading)

\* C1 as stated: the total height used for vertical centering is the sum
\* of lineHeight + spacing over the text lines and of size alone over the
\* spacer lines (text empty after trimming); three spacers of sizes
\* 10, 20, 30 total 60.
C1_TotalHeight ==
    (pc = "returned" /\ screen.outcome = "announcement") =>
        screen.total_height =
            BlockHeight(announcement, line_spacing, font_leading)

(***************************************************************************)
(* main(): strings.  File names and wildcards are sequences of characters; *)
(* Alphabet lists the characters used, in code point order.                *)
(***************************************************************************)
Alphabet ==
    <<"*", ".", "4", "A", "G", "J", "M", "P", "W",
      "a", "b", "c", "g", "j", "m", "p", "v">>

Code(c) == CHOOSE i \in 1..Len(Alphabet) : Alphabet[i] = c

\* str.upper() and str.lower(), character by character
UpperChar(c) ==
    CASE c = "a" -> "A" [] c = "g" -> "G" [] c = "j" -> "J"
      [] c = "m" -> "M" [] c = "p" -> "P" [] OTHER -> c

LowerChar(c) ==
    CASE c = "A" -> "a" [] c = "G" -> "g" [] c = "J" -> "j"
      [] c = "M" -> "m" [] c = "P" -> "p" [] c = "W" -> "w" [] OTHER -> c

Upper(str) == [i \in 1..Len(str) |-> UpperChar(str[i])]
Lower(str) == [i \in 1..Len(str) |-> LowerChar(str[i])]

\* s < t for Python strings: the first differing code point decides
RECURSIVE StrLess(_, _)
StrLess(s, t) ==
    IF t = <<>> THEN FALSE
    ELSE IF s = <<>> THEN TRUE
    ELSE IF Head(s) # Head(t) THEN Code(Head(s)) < Code(Head(t))
    ELSE StrLess(Tail(s), Tail(t))

\* fnmatch on a case-sensitive file system: "*" matches any run of
\* characters, every other character matches itself
RECURSIVE FnMatch(_, _)
FnMatch(pattern, name) ==
    IF pattern = <<>> THEN name = <<>>
    ELSE IF Head(pattern) = "*"
         THEN FnMatch(Tail(pattern), name)
              \/ (name # <<>> /\ FnMatch(pattern, Tail(name)))
         ELSE /\ name # <<>>
              /\ Head(pattern) = Head(name)
              /\ FnMatch(Tail(pattern), Tail(name))

\* glob.glob(path + pattern): the matching names, in listing order
Glob(listing, pattern) ==
    SelectSeq(listing, LAMBDA name : FnMatch(pattern, name))

\* lines 349-351 and 355-357: every wildcard in upper and in lower case
RECURSIVE GlobAll(_, _)
GlobAll(listing, wildcards) ==
    IF wildcards = <<>> THEN <<>>
    ELSE GlobAll(listing, SubSeq(wildcards, 1, Len(wildcards) - 1))
         \o Glob(listing, Upper(wildcards[Len(wildcards)]))
         \o Glob(listing, Lower(wildcards[Len(wildcards)]))

\* list.sort(): ascending, equal elements kept
RECURSIVE Insert(_, _)
Insert(x, sorted) ==
    IF sorted = <<>> THEN <<x>>
    ELSE IF StrLess(x, Head(sorted)) THEN <<x>> \o sorted
    ELSE <<Head(sorted)>> \o Insert(x, Tail(sorted))

RECURSIVE Sort(_)
Sort(list) ==
    IF list = <<>> THEN <<>>
    ELSE Insert(list[Len(list)], Sort(SubSeq(list, 1, Len(list) - 1)))

(***************************************************************************)
(* main(): the announcement file.  An "announcement" element has the       *)
(* attributes startdate and enddate and "line" children with the           *)
(* attributes size, color, center and a text.  An attribute is a string;   *)
(* NoAttr is what Element.get returns for a missing one.                   *)
(***************************************************************************)
NoAttr == "None"

\* the dates the model uses, as DATE_FMT writes them; a date is its index
Calendar ==
    <<"2023-12-31", "2024-01-01", "2024-01-15", "2024-01-31", "2024-02-01">>

\* datetime.strptime(s, DATE_FMT).date(): raises on any other string
IsDate(s) == \E i \in 1..Len(Calendar) : Calendar[i] = s
Strptime(s) == CHOOSE i \in 1..Len(Calendar) : Calendar[i] = s

\* int(s): raises on a string that is no number, and on None
IsInt(s) == s \in {"0", "1", "10", "20", "30"}
PyInt(s) ==
    CASE s = "0" -> 0 [] s = "1" -> 1 [] s = "10" -> 10
      [] s = "20" -> 20 [] s = "30" -> 30

\* hex_to_rgb(value): raises on None and on a string that is not hex
IsHexColor(s) == s \in {"#ff0000", "#ffffff"}
hex_to_rgb(s) ==
    CASE s = "#ff0000" -> <<255, 0, 0>> [] s = "#ffffff" -> <<255, 255, 255>>

\* line 320, with the bounds exclusive: the fault "<" for "<="
InDateRange_Exclusive(ann_start_date, ann_end_date, date) ==
    ann_start_date < date /\ ann_end_date > date

\* line 320
InDateRange(ann_start_date, ann_end_date, date) ==
    ann_start_date <= date /\ ann_end_date >= date

\* lines 327-341: one "line" element
LineRaises(line) ==
    IF line.text = <<>>
    THEN ~IsInt(line.size)
    ELSE ~IsInt(line.center) \/ ~IsInt(line.size) \/ ~IsHexColor(line.color)

ParseLine(line) ==
    IF line.text = <<>>
    THEN SpaceLine(PyInt(line.size))
    ELSE TextLine(line.text, PyInt(line.size), hex_to_rgb(line.color),
                  PyInt(line.center) = 1)

\* lines 312-345 for one "announcement" element, with a line that raises
\* making the loop drop the element: the fault of a partial load
ParseItem_SkipMalformed(item, date) ==
    IF ~IsDate(item.startdate) \/ ~IsDate(item.enddate)
    THEN [raised |-> TRUE, keep |-> FALSE, ann_temp |-> <<>>]
    ELSE IF ~InDateRange(Strptime(item.startdate), Strptime(item.enddate),
                         date)
    THEN [raised |-> FALSE, keep |-> FALSE, ann_temp |-> <<>>]
    ELSE IF \E i \in 1..Len(item.lines) : LineRaises(item.lines[i])
    THEN [raised |-> FALSE, keep |-> FALSE, ann_temp |-> <<>>]
    ELSE [raised |-> FALSE, keep |-> TRUE,
          ann_temp |-> [i \in 1..Len(item.lines) |->
                            ParseLine(item.lines[i])]]

\* lines 312-345 for one "announcement" element: both dates are parsed,
\* then the lines, only if the dates contain the current date
ParseItem(item, date) ==
    IF ~IsDate(item.startdate) \/ ~IsDate(item.enddate)
    THEN [raised |-> TRUE, keep |-> FALSE, ann_temp |-> <<>>]
    ELSE IF ~InDateRange(Strptime(item.startdate), Strptime(item.enddate),
                         date)
    THEN [raised |-> FALSE, keep |-> FALSE, ann_temp |-> <<>>]
    ELSE IF \E i \in 1..Len(item.lines) : LineRaises(item.lines[i])
    THEN [raised |-> TRUE, keep |-> FALSE, ann_temp |-> <<>>]
    ELSE [raised |-> FALSE, keep |-> TRUE,
          ann_temp |-> [i \in 1..Len(item.lines) |->
                            ParseLine(item.lines[i])]]

\* lines 312-345: the loop over the elements; the first exception ends it
RECURSIVE ParseAnnouncements(_, _)
ParseAnnouncements(tree, date) ==
    IF tree = <<>> THEN [raised |-> FALSE, value |-> <<>>]
    ELSE LET before == ParseAnnouncements(SubSeq(tree, 1, Len(tree) - 1),
                                          date)
             item   == ParseItem(tree[Len(tree)], date)
         IN  IF before.raised \/ item.raised
             THEN [raised |-> TRUE, value |-> <<>>]
             ELSE [raised |-> FALSE,
                   value |-> IF item.keep
                             THEN Append(before.value, item.ann_temp)
                             ELSE before.value]

(***************************************************************************)
(* main(): the inputs the model draws from.                                *)
(***************************************************************************)
XmlItem(startdate, enddate, lines) ==
    [startdate |-> startdate, enddate |-> enddate, lines |-> lines]

XmlLine(text, size, color, center) ==
    [text |-> text, size |-> size, color |-> color, center |-> center]

January ==
    XmlItem("2024-01-01", "2024-01-31",
            <<XmlLine(<<"H", "i">>, "20", "#ff0000", "1"),
              XmlLine(<<>>, "10", NoAttr, NoAttr),
              XmlLine(<<" ">>, "30", "#ffffff", "0")>>)

\* the contents ANNOUNCEMENT_FILE may have when a cycle reads it
AnnouncementFiles ==
    { \* two announcements that overlap on 2024-01-15 .. 2024-01-31
      <<January,
        XmlItem("2024-01-15", "2024-02-01",
                <<XmlLine(<<"H">>, "30", "#ff0000", "1")>>)>>,
      \* a start date not in DATE_FMT
      <<January,
        XmlItem("01/15/2024", "2024-01-31",
                <<XmlLine(<<"H", "i">>, "20", "#ff0000", "1")>>)>>,
      \* a line without size, in an announcement for 2023-12-31 only
      <<January,
        XmlItem("2023-12-31", "2023-12-31",
                <<XmlLine(<<"H", "i">>, NoAttr, "#ff0000", "1")>>)>> }

JpgUpperA == <<"A", ".", "J", "P", "G">>
JpgLowerB == <<"b", ".", "j", "p", "g">>
JpgMixedC == <<"c", ".", "J", "p", "g">>
Mp4LowerV == <<"v", ".", "m", "p", "4">>
Mp4UpperW == <<"W", ".", "M", "P", "4">>

\* what PHOTO_PATH and VIDEO_PATH may list when a cycle scans them
DiskSnapshots ==
    { NoDisk,
      [photo_path |-> <<JpgMixedC, JpgLowerB, JpgUpperA>>,
       video_path |-> <<Mp4UpperW, Mp4LowerV>>] }

\* the size pygame.image.load gives each photo
ImageSize(name) ==
    CASE name = JpgUpperA -> [width |-> 8, height |-> 6]
      [] name = JpgLowerB -> [width |-> 16, height |-> 3]
      [] OTHER -> [width |-> 1, height |-> 1]

\* config: files = *.jpg, and files = *.jpg, *.JPG
PhotoWildcards ==
    { <<<<"*", ".", "j", "p", "g">>>>,
      <<<<"*", ".", "j", "p", "g">>, <<"*", ".", "J", "P", "G">>>> }

VIDEO_FILES == <<<<"*", ".", "m", "p", "4">>>>

(***************************************************************************)
(* main(): the loop.  pc is "cycle" at the top of "while True", "photo" at *)
(* the inner loop's show_image, "announcement" and "video" at the two      *)
(* random tests, "terminated" once an exception has left main().           *)
(* Probabilities and draws are in units of 1/Scale; random.random() is in  *)
(* [0, 1).                                                                 *)
(***************************************************************************)
Init ==
    /\ screen_width = 8 /\ screen_height = 6
    /\ screen = Blank
    /\ img = [width |-> 0, height |-> 0]
    /\ announcement = <<>>
    /\ line_spacing = 2
    /\ font_leading = 2
    /\ pc = "cycle"
    /\ current_date = 0 /\ announcements = <<>> /\ photos = <<>>
    /\ videos = <<>> /\ current_photo = 0 /\ step = NoStep
    /\ cycle_shown = <<>> /\ uncaught = "none" /\ ann_tree = <<>>
    /\ disk = NoDisk
    /\ PHOTO_FILES \in PhotoWildcards
    /\ ANNOUNCEMENT_PROBABILITY \in 0..Scale
    /\ VIDEO_PROBABILITY \in 0..Scale
    /\ today \in 1..MaxDay

\* line 368, the inner loop's test
LoopTest(index, list) == IF index < Len(list) THEN "photo" ELSE "cycle"

\* lines 376 and 385, with the comparison strict: the fault "<" for "<="
Roll_Strict(draw, probability, catalog) ==
    draw < probability /\ catalog # <<>>

\* lines 376 and 385: random.random() <= PROBABILITY and <list>
Roll(draw, probability, catalog) ==
    draw <= probability /\ catalog # <<>>

\* lines 297-362: one pass of the outer loop up to the inner loop
CycleStart ==
    /\ pc = "cycle"
    /\ current_date' = today
    /\ \E tree \in AnnouncementFiles, snapshot \in DiskSnapshots :
          LET parsed == ParseAnnouncements(tree, today)
              found  == Sort(GlobAll(snapshot.photo_path, PHOTO_FILES))
          IN  /\ ann_tree' = tree
              /\ disk' = snapshot
              /\ IF parsed.raised
                 THEN /\ pc' = "terminated"
                      /\ uncaught' = "load"
                      /\ announcements' = <<>>
                      /\ photos' = <<>>
                      /\ videos' = <<>>
                 ELSE /\ pc' = LoopTest(0, found)
                      /\ uncaught' = "none"
                      /\ announcements' = parsed.value
                      /\ photos' = found
                      /\ videos' = GlobAll(snapshot.video_path, VIDEO_FILES)
    /\ current_photo' = 0
    /\ step' = NoStep
    /\ cycle_shown' = <<>>
    /\ UNCHANGED <<playerVars, argVars, configVars, envVars>>

\* lines 369-371
ShowPhoto ==
    /\ pc = "photo"
    /\ LET name  == photos[current_photo + 1]
           size  == ImageSize(name)
           shown == ShowImage(screen_width, screen_height,
                              size.width, size.height)
       IN  /\ screen' = shown
           /\ IF shown.outcome \in {"scaled", "unscaled"}
              THEN /\ pc' = "announcement"
                   /\ uncaught' = "none"
                   /\ current_photo' = current_photo + 1
                   /\ cycle_shown' = Append(cycle_shown, name)
                   /\ step' = [NoStep EXCEPT !.photo = name,
                                             !.order = <<"photo">>]
              ELSE /\ pc' = "terminated"
                   /\ uncaught' = "show_image"
                   /\ UNCHANGED <<current_photo, cycle_shown, step>>
    /\ UNCHANGED <<screen_width, screen_height, argVars, current_date,
                   announcements, photos, videos, ann_tree, disk,
                   configVars, envVars>>

\* lines 376-380
RollAnnouncement ==
    /\ pc = "announcement"
    /\ \E draw \in 0..(Scale - 1) :
          IF Roll(draw, ANNOUNCEMENT_PROBABILITY, announcements)
          THEN \E choice \in 1..Len(announcements) :
                  /\ screen' = ShowAnnouncement(announcements[choice],
                                    screen_width, screen_height,
                                    line_spacing, font_leading)
                  /\ step' = [step EXCEPT
                                !.draws = Append(@, draw),
                                !.order = Append(@, "announcement"),
                                !.announcement = choice]
          ELSE /\ step' = [step EXCEPT !.draws = Append(@, draw)]
               /\ UNCHANGED screen
    /\ pc' = "video"
    /\ UNCHANGED <<screen_width, screen_height, argVars, current_date,
                   announcements, photos, videos, current_photo,
                   cycle_shown, uncaught, ann_tree, disk, configVars,
                   envVars>>

\* what subprocess.call(['/usr/bin/omxplayer', ...]) can do: return the
\* player's exit status, zero or not, or raise OSError when the player
\* cannot be started
PlayerResults == {"exited", "exited_abnormally", "launch_failed"}

\* lines 385-386, and show_video (lines 159-165)
RollVideo ==
    /\ pc = "video"
    /\ \E draw \in 0..(Scale - 1) :
          IF Roll(draw, VIDEO_PROBABILITY, videos)
          THEN \E choice \in 1..Len(videos), result \in PlayerResults :
                  /\ screen' = [outcome |-> "video", file |-> videos[choice]]
                  /\ step' = [step EXCEPT
                                !.draws = Append(@, draw),
                                !.order = Append(@, "video"),
                                !.video = videos[choice],
                                !.player = result]
                  /\ IF result = "launch_failed"
                     THEN pc' = "terminated" /\ uncaught' = "show_video"
                     ELSE /\ pc' = LoopTest(current_photo, photos)
                          /\ UNCHANGED uncaught
          ELSE /\ step' = [step EXCEPT !.draws = Append(@, draw)]
               /\ pc' = LoopTest(current_photo, photos)
               /\ UNCHANGED <<screen, uncaught>>
    /\ UNCHANGED <<screen_width, screen_height, argVars, current_date,
                   announcements, photos, videos, current_photo,
                   cycle_shown, ann_tree, disk, configVars, envVars>>

\* midnight: the system date advances while main() runs
Tick ==
    /\ pc # "terminated"
    /\ today < MaxDay
    /\ today' = today + 1
    /\ UNCHANGED <<playerVars, argVars, mainVars, configVars>>

Next == CycleStart \/ ShowPhoto \/ RollAnnouncement \/ RollVideo \/ Tick

Spec == Init /\ [][Next]_vars

(***************************************************************************)
(* Properties of main()                                                    *)
(***************************************************************************)
\* a cycle has read its inputs and main() got past the load
Loaded == current_date # 0 /\ uncaught # "load"

\* the step's photo has been shown and both random tests are behind it
StepDone == step.photo # <<>> /\ Len(step.draws) = 2

\* C4: after each photo exactly two draws are made, in order; an
\* announcement is shown in the step iff the first draw <=
\* ANNOUNCEMENT_PROBABILITY and the cycle has announcements, a video is
\* played iff the second draw <= VIDEO_PROBABILITY and the cycle has
\* videos; what is shown belongs to the cycle's lists, and the order
\* within a step is photo, announcement (if any), video (if any).
C4_DecisionRule ==
    /\ Len(step.draws) <= 2
    /\ (pc \in {"photo", "cycle"} /\ step.photo # <<>>) => StepDone
    /\ (pc = "video") => Len(step.draws) = 1
    /\ (pc = "announcement") => Len(step.draws) = 0
    /\ Len(step.draws) >= 1 =>
          /\ step.announcement # 0 <=>
                /\ step.draws[1] <= ANNOUNCEMENT_PROBABILITY
                /\ announcements # <<>>
          /\ step.announcement # 0 =>
                step.announcement \in 1..Len(announcements)
    /\ Len(step.draws) = 0 => step.announcement = 0
    /\ Len(step.draws) = 2 =>
          /\ step.video # <<>> <=>
                /\ step.draws[2] <= VIDEO_PROBABILITY
                /\ videos # <<>>
          /\ step.video # <<>> =>
                \E i \in 1..Len(videos) : videos[i] = step.video
    /\ Len(step.draws) < 2 => step.video = <<>>
    /\ step.order =
          (IF step.photo # <<>> THEN <<"photo">> ELSE <<>>)
          \o (IF step.announcement # 0 THEN <<"announcement">> ELSE <<>>)
          \o (IF step.video # <<>> THEN <<"video">> ELSE <<>>)

\* C4 witness: a finished step that showed a photo, then an announcement
\* on a draw equal to its probability, then a video
C4_Witness ==
    /\ StepDone /\ pc \in {"photo", "cycle"}
    /\ step.order = <<"photo", "announcement", "video">>
    /\ step.draws[1] = ANNOUNCEMENT_PROBABILITY
    /\ ANNOUNCEMENT_PROBABILITY < VIDEO_PROBABILITY

\* the files of a listing some wildcard matches, in upper or lower case
Matching(listing, wildcards) ==
    {listing[i] : i \in {k \in 1..Len(listing) :
        \E w \in 1..Len(wildcards) :
            \/ FnMatch(Upper(wildcards[w]), listing[k])
            \/ FnMatch(Lower(wildcards[w]), listing[k])}}

\* C5 as stated: within a cycle the photos are displayed in strictly
\* increasing order of path; the catalog holds each matching file once,
\* whatever the wildcards, and a cycle shows every entry exactly once.
C5_EachPhotoOnceInOrder ==
    Loaded =>
        /\ \A i, j \in 1..Len(cycle_shown) :
              i < j => StrLess(cycle_shown[i], cycle_shown[j])
        /\ {photos[i] : i \in 1..Len(photos)}
              = Matching(disk.photo_path, PHOTO_FILES)
        /\ Len(photos) = Cardinality(Matching(disk.photo_path, PHOTO_FILES))
        /\ (pc = "cycle" /\ uncaught = "none") => cycle_shown = photos

\* the elements of the tree whose inclusive date range contains date d
EligibleItems(tree, d) ==
    SelectSeq(tree, LAMBDA item :
        /\ IsDate(item.startdate) /\ IsDate(item.enddate)
        /\ \E s, e \in 1..Len(Calendar) :
              /\ Calendar[s] = item.startdate /\ Calendar[e] = item.enddate
              /\ s <= d /\ d <= e)

LinesOf(item) == [i \in 1..Len(item.lines) |-> ParseLine(item.lines[i])]

\* C6: the announcements a cycle can show are exactly those with
\* startDate <= d <= endDate, both ends inclusive, d being the date
\* captured at the cycle's start; a later change of the date does not
\* change the set until the next cycle.
C6_Eligibility ==
    Loaded =>
        LET eligible == EligibleItems(ann_tree, current_date)
        IN  /\ Len(announcements) = Len(eligible)
            /\ \A i \in 1..Len(eligible) :
                  announcements[i] = LinesOf(eligible[i])
            /\ step.announcement # 0 =>
                  /\ step.announcement \in 1..Len(eligible)
                  /\ screen.outcome = "announcement" =>
                        screen = ShowAnnouncement(
                                    LinesOf(eligible[step.announcement]),
                                    screen_width, screen_height,
                                    line_spacing, font_leading)

\* C6 witness: an announcement on display whose range contains the date
\* captured at the cycle's start, its last day, and not the date the clock
\* has moved to since
C6_Witness ==
    /\ Loaded /\ pc = "video" /\ step.announcement # 0
    /\ today > current_date
    /\ LET item == EligibleItems(ann_tree, current_date)[step.announcement]
       IN  /\ Calendar[current_date] = item.enddate
           /\ EligibleItems(<<item>>, today) = <<>>

\* C7 as stated: the catalogs and the announcement set are rebuilt only
\* at cycle boundaries; after the last photo of a cycle a new cycle
\* begins; an empty photo catalog restarts the outer loop at once; the
\* scheduler never terminates on its own.
C7_RestartsForever ==
    [][ /\ (photos' # photos \/ videos' # videos
               \/ announcements' # announcements) => pc = "cycle"
        /\ (pc = "video" /\ current_photo = Len(photos)) => pc' = "cycle"
        /\ (pc = "cycle" /\ pc' # "terminated" /\ photos' = <<>>) =>
               (pc' = "cycle" /\ step' = NoStep)
        /\ pc' # "terminated" ]_vars

\* C8 as stated: when the player cannot be launched or exits abnormally
\* the scheduler goes on: the next step is the next photo in order, or a
\* new cycle after the last photo.
C8_PlayerFailureContinues ==
    [][ (pc = "video"
            /\ step'.player \in {"launch_failed", "exited_abnormally"}) =>
        pc' = LoopTest(current_photo, photos) ]_vars

\* an element the claim calls malformed: a date that does not parse, or a
\* line without a field its kind needs
ItemMalformed(item) ==
    \/ ~IsDate(item.startdate)
    \/ ~IsDate(item.enddate)
    \/ \E i \in 1..Len(item.lines) : LineRaises(item.lines[i])

=============================================================================
